---- MODULE Spec2Model ----
\* A model of the PSKReporter client (package pskreporter): the query options
\* that build the parameter set of a request (WithCallsign, ...), and
\* Client.Query with its look-aside file cache.
\*
\* Five specifications are defined:
\*   SpecOpt  the option loop of Client.Query, one option per step, on one
\*            parameter set (queryOptions.vals);
\*   SpecEnc  the building of the encoded query and the cache key of two
\*            option sequences on the same base URL;
\*   Spec     whole Client.Query calls of one client against the cache
\*            directory, the clock and the HTTP transport;
\*   SpecShared  the calls of two clients with different base URLs and one
\*            cache directory;
\*   SpecConc two Client.Query calls for one query that run at the same time,
\*            one file operation per step.
EXTENDS Integers, Sequences, FiniteSets, TLC

VARIABLES
    qvals,      \* SpecOpt: queryOptions.vals, the parameter set being built
    qseed,      \* SpecOpt: the parameter set the loop started from (u.Query())
    qopts,      \* SpecOpt: the options handed to the call (opts ...QueryOption)
    qapplied,   \* SpecOpt: number of options invoked so far by the loop
    qerr,       \* SpecOpt: the error the loop returned with, or nil
    enc,        \* SpecEnc: two option sequences and the queries built from them
    client,     \* Spec: the Client built by New (baseURL, cacheDir, cacheDuration)
    now,        \* Spec: the clock (time.Now and the file system's clock)
    files,      \* Spec: the cache directory: file name -> [bytes, mtime]
    last,       \* Spec: what the most recent Client.Query call did and returned
    procs       \* SpecConc: the Client.Query calls that run at the same time

vars == <<qvals, qseed, qopts, qapplied, qerr, enc, client, now, files, last, procs>>

-----------------------------------------------------------------------------
\* Bounds of the model.

\* longest option sequence handed to the option loop in SpecOpt
MaxOpts == 3
\* longest option sequence of a pair in SpecEnc
MaxEncOpts == 3
\* the clock runs from 0 to MaxTime
MaxTime == 2
\* the longest cache duration, in clock units
MaxDuration == 2

-----------------------------------------------------------------------------
\* Errors (error values of the package; nil is the absence of an error).

nil == "nil"
errCallsignExclusive ==
    "only one of callsign, senderCallsign, or receiverCallsign can be specified at a time"
errFlowStartGreaterDay == "WithFlowStartSeconds cannot be greater than 24 hours"
errFlowStartNotNegative == "WithFlowStartSeconds must be negative"
errLowerFrequencyGreaterThanUpper == "lower frequency must be less than upper frequency"

\* 24 hours in seconds, the bound of WithFlowStartSeconds
DaySeconds == 86400

-----------------------------------------------------------------------------
\* url.Values: a Go map from parameter name to a list of values.  The map is
\* kept as a list of [k, v] entries with distinct keys, in insertion order:
\* the order stands for the unspecified iteration order of the Go map, which
\* is all an encoder that does not sort would have to go by.

Has(vals, k) == \E n \in 1..Len(vals) : vals[n].k = k

Keys(vals) == {vals[n].k : n \in 1..Len(vals)}

\* the list of values stored under k (empty when k is absent)
Lookup(vals, k) ==
    IF Has(vals, k)
    THEN LET n == CHOOSE n \in 1..Len(vals) : vals[n].k = k IN vals[n].v
    ELSE <<>>

\* url.Values.Get: the first value of k, or ""
Get(vals, k) == IF Lookup(vals, k) = <<>> THEN "" ELSE Lookup(vals, k)[1]

\* url.Values.Set: k now holds exactly one value, replacing what it held
Set(vals, k, s) ==
    IF Has(vals, k)
    THEN [n \in 1..Len(vals) |->
            IF vals[n].k = k THEN [k |-> k, v |-> <<s>>] ELSE vals[n]]
    ELSE Append(vals, [k |-> k, v |-> <<s>>])

\* the parameter set as a mapping: same names with the same values
AsMap(vals) == [k \in Keys(vals) |-> Lookup(vals, k)]

\* fmt.Sprintf("%d", i)
Sprintf(i) == ToString(i)

-----------------------------------------------------------------------------
\* The query options.  Each takes the parameter set and returns the error of
\* the option together with the parameter set it leaves.

Ok(vals) == [err |-> nil, vals |-> vals]
Fail(vals, e) == [err |-> e, vals |-> vals]

WithSenderCallsign(vals, s) ==
    IF Has(vals, "receiverCallsign") THEN Fail(vals, errCallsignExclusive)
    ELSE IF Has(vals, "callsign") THEN Fail(vals, errCallsignExclusive)
    ELSE Ok(Set(vals, "senderCallsign", s))

WithReceiverCallsign(vals, s) ==
    IF Has(vals, "senderCallsign") THEN Fail(vals, errCallsignExclusive)
    ELSE IF Has(vals, "callsign") THEN Fail(vals, errCallsignExclusive)
    ELSE Ok(Set(vals, "receiverCallsign", s))

WithCallsignNoReceiverCheck(vals, s) ==
    IF Has(vals, "senderCallsign") THEN Fail(vals, errCallsignExclusive)
    ELSE Ok(Set(vals, "callsign", s))

WithCallsign(vals, s) ==
    IF Has(vals, "senderCallsign") THEN Fail(vals, errCallsignExclusive)
    ELSE IF Has(vals, "receiverCallsign") THEN Fail(vals, errCallsignExclusive)
    ELSE Ok(Set(vals, "callsign", s))

WithMode(vals, s) == Ok(Set(vals, "mode", s))

WithReportLimit(vals, i) == Ok(Set(vals, "rptlimit", Sprintf(i)))

WithFlowStartSecondsExclusiveBounds(vals, i) ==
    IF i >= 0 THEN Fail(vals, errFlowStartNotNegative)
    ELSE IF i <= -DaySeconds THEN Fail(vals, errFlowStartGreaterDay)
    ELSE Ok(Set(vals, "flowStartSeconds", Sprintf(i)))

WithFlowStartSeconds(vals, i) ==
    IF i > 0 THEN Fail(vals, errFlowStartNotNegative)
    ELSE IF i < -DaySeconds THEN Fail(vals, errFlowStartGreaterDay)
    ELSE Ok(Set(vals, "flowStartSeconds", Sprintf(i)))

WithNoActive(vals, i) == Ok(Set(vals, "noactive", Sprintf(i)))

WithAppContact(vals, s) == Ok(Set(vals, "appcontact", s))

WithRROnly(vals, i) == Ok(Set(vals, "rronly", Sprintf(i)))

WithFrequencyRangeStrict(vals, lower, upper) ==
    IF lower >= upper THEN Fail(vals, errLowerFrequencyGreaterThanUpper)
    ELSE Ok(Set(vals, "frange", Sprintf(lower) \o "-" \o Sprintf(upper)))

WithFrequencyRange(vals, lower, upper) ==
    IF lower > upper THEN Fail(vals, errLowerFrequencyGreaterThanUpper)
    ELSE Ok(Set(vals, "frange", Sprintf(lower) \o "-" \o Sprintf(upper)))

WithNoLocator(vals, i) == Ok(Set(vals, "nolocator", Sprintf(i)))

WithStatistics(vals, i) == Ok(Set(vals, "statistics", Sprintf(i)))

WithLastSequenceNumber(vals, s) == Ok(Set(vals, "lastseqno", s))

\* An option value (the closure a With... function returns) is a record of
\* the function's name and its arguments; opt(&o) is the call of the closure.
StrOpt(name, s) == [name |-> name, s |-> s, i |-> 0, lower |-> 0, upper |-> 0]
IntOpt(name, i) == [name |-> name, s |-> "", i |-> i, lower |-> 0, upper |-> 0]
RangeOpt(lower, upper) ==
    [name |-> "WithFrequencyRange", s |-> "", i |-> 0, lower |-> lower, upper |-> upper]

Call(opt, vals) ==
    CASE opt.name = "WithSenderCallsign" -> WithSenderCallsign(vals, opt.s)
      [] opt.name = "WithReceiverCallsign" -> WithReceiverCallsign(vals, opt.s)
      [] opt.name = "WithCallsign" -> WithCallsign(vals, opt.s)
      [] opt.name = "WithMode" -> WithMode(vals, opt.s)
      [] opt.name = "WithReportLimit" -> WithReportLimit(vals, opt.i)
      [] opt.name = "WithFlowStartSeconds" -> WithFlowStartSeconds(vals, opt.i)
      [] opt.name = "WithNoActive" -> WithNoActive(vals, opt.i)
      [] opt.name = "WithAppContact" -> WithAppContact(vals, opt.s)
      [] opt.name = "WithRROnly" -> WithRROnly(vals, opt.i)
      [] opt.name = "WithFrequencyRange" -> WithFrequencyRange(vals, opt.lower, opt.upper)
      [] opt.name = "WithNoLocator" -> WithNoLocator(vals, opt.i)
      [] opt.name = "WithStatistics" -> WithStatistics(vals, opt.i)
      [] opt.name = "WithLastSequenceNumber" -> WithLastSequenceNumber(vals, opt.s)

-----------------------------------------------------------------------------
\* url.ParseQuery, as u.Query() uses it: the "k=v" segments of a raw query,
\* in order, each appended to the values of its key.

RECURSIVE ParseQuery(_)
ParseQuery(pairs) ==
    IF pairs = <<>> THEN <<>>
    ELSE LET rest == ParseQuery(SubSeq(pairs, 1, Len(pairs) - 1))
             p == pairs[Len(pairs)]
         IN IF Has(rest, p[1])
            THEN [n \in 1..Len(rest) |->
                    IF rest[n].k = p[1]
                    THEN [k |-> p[1], v |-> Append(rest[n].v, p[2])]
                    ELSE rest[n]]
            ELSE Append(rest, [k |-> p[1], v |-> <<p[2]>>])

\* The raw queries a base URL (or a caller's own parameter set) starts with.
RawQueries ==
    { <<>>,
      << <<"callsign", "N0CALL">> >>,
      << <<"mode", "FT8">>, <<"mode", "PSK31">> >>,
      << <<"senderCallsign", "N0CALL">>, <<"appcontact", "a@b">> >>,
      << <<"callsign", "N0CALL">>, <<"senderCallsign", "N0CALL">> >> }

\* The option values the model hands to the option loop.
Options ==
    {StrOpt("WithSenderCallsign", "AG6K"), StrOpt("WithReceiverCallsign", "AG6K"),
     StrOpt("WithCallsign", "AG6K"), StrOpt("WithMode", "FT8"),
     StrOpt("WithAppContact", "a@b"), StrOpt("WithLastSequenceNumber", "abc123"),
     IntOpt("WithReportLimit", 10), IntOpt("WithNoActive", 2),
     IntOpt("WithRROnly", 2), IntOpt("WithNoLocator", 2),
     IntOpt("WithStatistics", 2)}
    \cup {IntOpt("WithFlowStartSeconds", i) : i \in {-DaySeconds - 1, -DaySeconds, 0, 1}}
    \cup {RangeOpt(1, 1), RangeOpt(1, 2), RangeOpt(2, 1)}

SeqsUpTo(S, n) == UNION {[1..m -> S] : m \in 0..n}

-----------------------------------------------------------------------------
\* The state of a client that has made no call, and of no option loop.

None == "none"

NoResp == [err |-> nil, status |-> 0, body |-> <<>>, readErr |-> FALSE]

DefaultClient == [endpoint |-> "https://retrieve.pskreporter.info/query",
                  rawQuery |-> <<>>, cacheDir |-> "", cacheDuration |-> MaxDuration]

\* the record of a call: the options it was handed, how many of them the loop
\* invoked and with what error (optErr), the parameter set, the encoded query
\* and the URL of the request (target), what the call did (io) and received (resp), what it returned
\* (result, err), where the result came from, the time of the call, and
\* whether the call left the cache directory other than it found it
NoCall == [called |-> FALSE, opts |-> <<>>, applied |-> 0, optErr |-> nil,
           vals |-> <<>>, rawQuery |-> "", target |-> "", io |-> <<>>,
           resp |-> NoResp,
           result |-> None, err |-> nil, source |-> None, at |-> 0,
           changed |-> FALSE]

NoFiles == [f \in {} |-> 0]

\* the goroutines that call Client.Query at the same time
Procs == {"g1", "g2"}

\* a goroutine that is not in a call: pc is its place in Client.Query, buf
\* what it has read of the cache file, body the response body it holds and
\* written how much of it fh.Write has put into the file
NoProc == [pc |-> "idle", buf |-> <<>>, body |-> <<>>, written |-> 0,
           result |-> None, err |-> nil, source |-> None]

NoProcs == [p \in Procs |-> NoProc]

NoQuery == [err |-> nil, vals |-> <<>>, rawQuery |-> "", file |-> ""]

NoEnc == [a |-> <<>>, b |-> <<>>, seed |-> <<>>, done |-> FALSE,
          ra |-> NoQuery, rb |-> NoQuery]

-----------------------------------------------------------------------------
\* SpecOpt: the option loop of Client.Query (for _, opt := range opts), one
\* option per step.  The loop returns at the first option that fails.

InitOpt ==
    /\ qseed \in {ParseQuery(q) : q \in RawQueries}
    /\ qvals = qseed
    /\ qopts \in SeqsUpTo(Options, MaxOpts)
    /\ qapplied = 0
    /\ qerr = nil
    /\ enc = NoEnc
    /\ client = DefaultClient
    /\ now = 0
    /\ files = NoFiles
    /\ last = NoCall
    /\ procs = NoProcs

\* the loop is at an option of the given name
AtOption(name) ==
    /\ qerr = nil
    /\ qapplied < Len(qopts)
    /\ qopts[qapplied + 1].name = name

\* the loop invokes the option and keeps its error
Invoke(r) ==
    /\ qvals' = r.vals
    /\ qerr' = r.err
    /\ qapplied' = qapplied + 1
    /\ UNCHANGED <<qseed, qopts, enc, client, now, files, last, procs>>

NextOption == qopts[qapplied + 1]

ApplyWithSenderCallsign ==
    AtOption("WithSenderCallsign") /\ Invoke(WithSenderCallsign(qvals, NextOption.s))
ApplyWithReceiverCallsign ==
    AtOption("WithReceiverCallsign") /\ Invoke(WithReceiverCallsign(qvals, NextOption.s))
ApplyWithCallsign ==
    AtOption("WithCallsign") /\ Invoke(WithCallsign(qvals, NextOption.s))
ApplyWithMode ==
    AtOption("WithMode") /\ Invoke(WithMode(qvals, NextOption.s))
ApplyWithReportLimit ==
    AtOption("WithReportLimit") /\ Invoke(WithReportLimit(qvals, NextOption.i))
ApplyWithFlowStartSeconds ==
    AtOption("WithFlowStartSeconds") /\ Invoke(WithFlowStartSeconds(qvals, NextOption.i))
ApplyWithNoActive ==
    AtOption("WithNoActive") /\ Invoke(WithNoActive(qvals, NextOption.i))
ApplyWithAppContact ==
    AtOption("WithAppContact") /\ Invoke(WithAppContact(qvals, NextOption.s))
ApplyWithRROnly ==
    AtOption("WithRROnly") /\ Invoke(WithRROnly(qvals, NextOption.i))
ApplyWithFrequencyRange ==
    AtOption("WithFrequencyRange")
    /\ Invoke(WithFrequencyRange(qvals, NextOption.lower, NextOption.upper))
ApplyWithNoLocator ==
    AtOption("WithNoLocator") /\ Invoke(WithNoLocator(qvals, NextOption.i))
ApplyWithStatistics ==
    AtOption("WithStatistics") /\ Invoke(WithStatistics(qvals, NextOption.i))
ApplyWithLastSequenceNumber ==
    AtOption("WithLastSequenceNumber") /\ Invoke(WithLastSequenceNumber(qvals, NextOption.s))

NextOpt ==
    \/ ApplyWithSenderCallsign
    \/ ApplyWithReceiverCallsign
    \/ ApplyWithCallsign
    \/ ApplyWithMode
    \/ ApplyWithReportLimit
    \/ ApplyWithFlowStartSeconds
    \/ ApplyWithNoActive
    \/ ApplyWithAppContact
    \/ ApplyWithRROnly
    \/ ApplyWithFrequencyRange
    \/ ApplyWithNoLocator
    \/ ApplyWithStatistics
    \/ ApplyWithLastSequenceNumber

SpecOpt == InitOpt /\ [][NextOpt]_vars

\* the option loop has returned: with an error, or after the last option
LoopDone == qerr # nil \/ qapplied = Len(qopts)

-----------------------------------------------------------------------------
\* Properties of the option loop (SpecOpt).

\* the option the loop invoked last (qapplied >= 1)
LastOption == qopts[qapplied]

IdentityOptions == {"WithCallsign", "WithSenderCallsign", "WithReceiverCallsign"}

IdentityKeys == {"callsign", "senderCallsign", "receiverCallsign"}

\* the positions of opts that hold an identity option of another kind than an
\* identity option before them
SecondIdentities(opts) ==
    {n \in 1..Len(opts) :
        /\ opts[n].name \in IdentityOptions
        /\ \E m \in 1..(n - 1) :
             opts[m].name \in IdentityOptions /\ opts[m].name # opts[n].name}

TwoIdentities(opts) == SecondIdentities(opts) # {}

\* the first position at which a second, different identity option stands
SecondIdentity(opts) ==
    CHOOSE n \in SecondIdentities(opts) : \A m \in SecondIdentities(opts) : n <= m

\* the option fails whatever the parameter set holds
FailsByItself(opt) ==
    \/ opt.name = "WithFlowStartSeconds" /\ (opt.i > 0 \/ opt.i < -86400)
    \/ opt.name = "WithFrequencyRange" /\ opt.lower > opt.upper

\* C1 as stated: a sequence with two different identity options fails with
\* errCallsignExclusive at the second of them, and a sequence with one kind of
\* identity option never fails with errCallsignExclusive.
C1_AsStated ==
    LoopDone =>
        /\ TwoIdentities(qopts) =>
             qerr = errCallsignExclusive /\ qapplied = SecondIdentity(qopts)
        /\ ~TwoIdentities(qopts) => qerr # errCallsignExclusive

\* C1, amended: on a parameter set that starts without an identity key, a
\* sequence with two different identity options in which no option before the
\* second of them fails by itself fails with errCallsignExclusive at that
\* second one, and a sequence with one kind of identity option never fails
\* with errCallsignExclusive.
C1_Exclusive ==
    (LoopDone /\ Keys(qseed) \cap IdentityKeys = {}) =>
        /\ ( /\ TwoIdentities(qopts)
             /\ \A m \in 1..(SecondIdentity(qopts) - 1) : ~FailsByItself(qopts[m]) )
           => qerr = errCallsignExclusive /\ qapplied = SecondIdentity(qopts)
        /\ ~TwoIdentities(qopts) => qerr # errCallsignExclusive

\* two different identity options with another option in between, on an
\* empty parameter set: the loop has failed at the third option
C1_Witness ==
    /\ qseed = <<>>
    /\ Len(qopts) = 3
    /\ qopts[1].name = "WithReceiverCallsign"
    /\ qopts[2].name = "WithMode"
    /\ qopts[3].name = "WithCallsign"
    /\ qapplied = 3
    /\ qerr = errCallsignExclusive

\* C7: WithFlowStartSeconds(v) fails with errFlowStartNotNegative for v > 0,
\* with errFlowStartGreaterDay for v < -86400, and for -86400 <= v <= 0
\* succeeds and sets flowStartSeconds to the decimal text of v.
C7_FlowStartSeconds ==
    (qapplied >= 1 /\ LastOption.name = "WithFlowStartSeconds") =>
        LET v == LastOption.i
        IN /\ v > 0 => qerr = errFlowStartNotNegative
           /\ v < -86400 => qerr = errFlowStartGreaterDay
           /\ (-86400 <= v /\ v <= 0) =>
                /\ qerr = nil
                /\ Lookup(qvals, "flowStartSeconds") = <<ToString(v)>>
           /\ (v = -86400 /\ qerr = nil) => Get(qvals, "flowStartSeconds") = "-86400"
           /\ (v = 0 /\ qerr = nil) => Get(qvals, "flowStartSeconds") = "0"

\* the lower bound itself has been accepted
C7_Witness ==
    /\ qapplied >= 1
    /\ LastOption.name = "WithFlowStartSeconds"
    /\ LastOption.i = -86400
    /\ qerr = nil
    /\ Get(qvals, "flowStartSeconds") = "-86400"

\* C8: WithFrequencyRange(lower, upper) fails, with
\* errLowerFrequencyGreaterThanUpper, if and only if lower > upper; for
\* lower <= upper it succeeds and sets frange to "<lower>-<upper>".
C8_FrequencyRange ==
    (qapplied >= 1 /\ LastOption.name = "WithFrequencyRange") =>
        LET lower == LastOption.lower
            upper == LastOption.upper
        IN /\ (qerr # nil) <=> (lower > upper)
           /\ (qerr # nil) => qerr = errLowerFrequencyGreaterThanUpper
           /\ (lower <= upper) =>
                Lookup(qvals, "frange") = <<ToString(lower) \o "-" \o ToString(upper)>>
           /\ (lower = 1 /\ upper = 2 /\ qerr = nil) => Get(qvals, "frange") = "1-2"

\* equal bounds have been accepted
C8_Witness ==
    /\ qapplied >= 1
    /\ LastOption.name = "WithFrequencyRange"
    /\ LastOption.lower = LastOption.upper
    /\ qerr = nil
    /\ Get(qvals, "frange") = "1-1"

\* the key an identity option sets
KeyOf(name) ==
    CASE name = "WithCallsign" -> "callsign"
      [] name = "WithSenderCallsign" -> "senderCallsign"
      [] name = "WithReceiverCallsign" -> "receiverCallsign"

\* C11 as stated: at every point of the option loop the parameter set holds
\* at most one of callsign, senderCallsign and receiverCallsign, and an
\* identity option is rejected with errCallsignExclusive exactly when the set
\* holds another of the three keys, whichever it is.
C11_AsStated ==
    /\ qapplied >= 1 => Cardinality(Keys(qvals) \cap IdentityKeys) <= 1
    /\ (qapplied >= 1 /\ LastOption.name \in IdentityOptions) =>
          LET others == (Keys(qvals) \cap IdentityKeys) \ {KeyOf(LastOption.name)}
          IN /\ qerr \in {nil, errCallsignExclusive}
             /\ qerr = errCallsignExclusive <=> others # {}
             /\ qerr = nil => Lookup(qvals, KeyOf(LastOption.name)) = <<LastOption.s>>

-----------------------------------------------------------------------------
\* url.Values.Encode: "k=v" for every value of every key, the keys in
\* ascending byte order, joined by "&".

\* the parameter names of the package in ascending byte order (sort.Strings)
KeyOrder ==
    <<"appcontact", "callsign", "flowStartSeconds", "frange", "lastseqno",
      "mode", "noactive", "nolocator", "receiverCallsign", "rptlimit",
      "rronly", "senderCallsign", "statistics">>

\* the keys in the order the map happens to hand them out
UnsortedKeys(vals) == [n \in 1..Len(vals) |-> vals[n].k]

\* the keys of the map, collected and sorted
SortedKeys(vals) == SelectSeq(KeyOrder, LAMBDA k : Has(vals, k))

\* url.QueryEscape: of the characters the model's values are made of
\* (letters, digits, '-', '@') only '@' is escaped
QueryEscape(s) == IF s = "a@b" THEN "a%40b" ELSE s

RECURSIVE Join(_)
Join(parts) ==
    IF parts = <<>> THEN ""
    ELSE IF Len(parts) = 1 THEN parts[1]
    ELSE parts[1] \o "&" \o Join(Tail(parts))

RECURSIVE EncodeKeys(_, _)
EncodeKeys(keys, vals) ==
    IF keys = <<>> THEN <<>>
    ELSE LET k == Head(keys)
             vs == Lookup(vals, k)
         IN [n \in 1..Len(vs) |-> QueryEscape(k) \o "=" \o QueryEscape(vs[n])]
            \o EncodeKeys(Tail(keys), vals)

Encode(vals) == Join(EncodeKeys(SortedKeys(vals), vals))

\* hash: the md5 checksum of the string in hex; injective for the strings of
\* the model, and kept as a tagged copy of its argument
hash(s) == "md5(" \o s \o ")"

\* filepath.Join(c.cacheDir, hash(u.RawQuery))
CacheFile(dir, raw) == dir \o "/" \o hash(raw)

-----------------------------------------------------------------------------
\* The option loop of Client.Query as one function: the options are invoked
\* in order and the loop returns at the first error; n counts the options
\* that were invoked.

RECURSIVE ApplyOptionsKeepGoing(_, _)
ApplyOptionsKeepGoing(opts, vals) ==
    IF opts = <<>> THEN [err |-> nil, vals |-> vals, n |-> 0]
    ELSE LET r == Call(Head(opts), vals)
             rest == ApplyOptionsKeepGoing(Tail(opts), r.vals)
         IN [err |-> IF r.err # nil THEN r.err ELSE rest.err,
             vals |-> rest.vals, n |-> rest.n + 1]

RECURSIVE ApplyOptions(_, _)
ApplyOptions(opts, vals) ==
    IF opts = <<>> THEN [err |-> nil, vals |-> vals, n |-> 0]
    ELSE LET r == Call(Head(opts), vals)
         IN IF r.err # nil THEN [err |-> r.err, vals |-> r.vals, n |-> 1]
            ELSE LET rest == ApplyOptions(Tail(opts), r.vals)
                 IN [err |-> rest.err, vals |-> rest.vals, n |-> rest.n + 1]

-----------------------------------------------------------------------------
\* SpecEnc: lines 109-122 of Client.Query for two option sequences on the
\* same base URL: the option loop, the encoding of the parameter set, and
\* the name of the cache file.

\* the options of the pairs: two values of one parameter, a second and a
\* third parameter, a value that is escaped
EncOptions ==
    {StrOpt("WithCallsign", "AG6K"), StrOpt("WithCallsign", "N0CALL"),
     StrOpt("WithMode", "FT8"), StrOpt("WithAppContact", "a@b")}

\* the encoded query and the cache file of the options on the parameter set
BuildQuery(opts, seed) ==
    LET r == ApplyOptions(opts, seed)
    IN IF r.err # nil
       THEN [err |-> r.err, vals |-> r.vals, rawQuery |-> "", file |-> ""]
       ELSE [err |-> nil, vals |-> r.vals, rawQuery |-> Encode(r.vals),
             file |-> CacheFile("/cache", Encode(r.vals))]

InitEnc ==
    /\ \E a, b \in SeqsUpTo(EncOptions, MaxEncOpts) :
       \E q \in { <<>>, << <<"mode", "PSK31">>, <<"mode", "FT8">> >> } :
         enc = [NoEnc EXCEPT !.a = a, !.b = b, !.seed = ParseQuery(q)]
    /\ qvals = <<>>
    /\ qseed = <<>>
    /\ qopts = <<>>
    /\ qapplied = 0
    /\ qerr = nil
    /\ client = DefaultClient
    /\ now = 0
    /\ files = NoFiles
    /\ last = NoCall
    /\ procs = NoProcs

BuildQueries ==
    /\ ~enc.done
    /\ enc' = [enc EXCEPT !.done = TRUE,
                          !.ra = BuildQuery(enc.a, enc.seed),
                          !.rb = BuildQuery(enc.b, enc.seed)]
    /\ UNCHANGED <<qvals, qseed, qopts, qapplied, qerr, client, now, files, last, procs>>

NextEnc == BuildQueries

SpecEnc == InitEnc /\ [][NextEnc]_vars

\* C9: two option sequences that both apply without error and leave the same
\* parameter set (the same names with the same values), whatever the order of
\* their options, produce the same encoded query string and the same cache key.
C9_SameSetSameQuery ==
    ( /\ enc.done
      /\ enc.ra.err = nil
      /\ enc.rb.err = nil
      /\ AsMap(enc.ra.vals) = AsMap(enc.rb.vals) )
    => /\ enc.ra.rawQuery = enc.rb.rawQuery
       /\ enc.ra.file = enc.rb.file

\* WithMode then WithCallsign, and WithCallsign then WithMode: the same
\* parameter set, inserted in two orders, and one encoded query
C9_Witness ==
    /\ enc.done
    /\ enc.seed = <<>>
    /\ enc.a = <<StrOpt("WithMode", "FT8"), StrOpt("WithCallsign", "AG6K")>>
    /\ enc.b = <<StrOpt("WithCallsign", "AG6K"), StrOpt("WithMode", "FT8")>>
    /\ enc.ra.vals # enc.rb.vals
    /\ AsMap(enc.ra.vals) = AsMap(enc.rb.vals)
    /\ enc.ra.rawQuery = "callsign=AG6K&mode=FT8"
    /\ enc.rb.file = "/cache/md5(callsign=AG6K&mode=FT8)"

-----------------------------------------------------------------------------
\* Documents.  Bytes are a sequence of chunks: "A" and "B" are the root
\* elements of two different reports, "X" is text that is not XML.  A root
\* element may also come in two chunks: "<1" or "<2" (the start tag and the
\* first records) followed by "1>" or "2>" (the last records and the end
\* tag).  Decoding reads the first element and ignores what follows it; no
\* bytes at all, bytes that do not start with an element, or an element that
\* is not closed, are an error.

errXML == "xml: syntax error"

Decode(bytes) ==
    IF Len(bytes) >= 1 /\ bytes[1] \in {"A", "B"}
    THEN [err |-> nil, r |-> bytes[1]]
    ELSE IF Len(bytes) >= 2 /\ bytes[1] \in {"<1", "<2"} /\ bytes[2] \in {"1>", "2>"}
    THEN [err |-> nil, r |-> bytes[1] \o bytes[2]]
    ELSE [err |-> errXML, r |-> None]

\* the bodies the server sends
Bodies == { <<"A">>, <<"B">>, <<"X">> }

\* what the transport hands back to c.doer.Do(req)
Responses ==
    { [err |-> "error", status |-> 0, body |-> <<>>, readErr |-> FALSE],
      [err |-> nil, status |-> 500, body |-> <<"A">>, readErr |-> FALSE],
      [err |-> nil, status |-> 404, body |-> <<"X">>, readErr |-> FALSE],
      [err |-> nil, status |-> 200, body |-> <<"A">>, readErr |-> TRUE] }
    \cup {[err |-> nil, status |-> 200, body |-> b, readErr |-> FALSE] : b \in Bodies}

StatusOK == 200

-----------------------------------------------------------------------------
\* The cache directory.

\* fi.ModTime().After(time.Now().Add(-1 * c.cacheDuration)), without the strictness
FreshInclusive(mtime, t, dur) == mtime >= t - dur

\* fi.ModTime().After(time.Now().Add(-1 * c.cacheDuration))
Fresh(mtime, t, dur) == mtime > t - dur

\* a write whose bytes never reach the file that os.Create truncated
WriteFileTruncated(fs, file, bytes, t) ==
    [f \in DOMAIN fs \cup {file} |->
        IF f = file THEN [bytes |-> <<>>, mtime |-> t] ELSE fs[f]]

\* a write that leaves a file that exists as it is (O_EXCL in place of O_TRUNC)
WriteFileIfAbsent(fs, file, bytes, t) ==
    [f \in DOMAIN fs \cup {file} |->
        IF f = file /\ f \notin DOMAIN fs THEN [bytes |-> bytes, mtime |-> t] ELSE fs[f]]

\* a write that puts the bytes in place and keeps the time of a file that exists
WriteFileKeepTime(fs, file, bytes, t) ==
    [f \in DOMAIN fs \cup {file} |->
        IF f = file
        THEN [bytes |-> bytes, mtime |-> IF f \in DOMAIN fs THEN fs[f].mtime ELSE t]
        ELSE fs[f]]

\* os.Create(file) followed by fh.Write: the file holds the bytes that were
\* written and carries the time of the write
WriteFile(fs, file, bytes, t) ==
    [f \in DOMAIN fs \cup {file} |->
        IF f = file THEN [bytes |-> bytes, mtime |-> t] ELSE fs[f]]

-----------------------------------------------------------------------------
\* The request: c.doer.Do, the status check, io.ReadAll and xml.Unmarshal.
\* io lists what was done, each with its success.

Ev(op, ok) == <<op, ok>>

\* an exchange that takes any status for a success
ExchangeAnyStatus(resp) ==
    IF resp.err # nil
    THEN [err |-> resp.err, result |-> None, io |-> <<Ev("do", FALSE)>>]
    ELSE IF resp.readErr
    THEN [err |-> "reading response: unexpected EOF", result |-> None,
          io |-> <<Ev("do", TRUE), Ev("readall", FALSE)>>]
    ELSE LET d == Decode(resp.body)
         IN [err |-> d.err, result |-> d.r,
             io |-> <<Ev("do", TRUE), Ev("readall", TRUE), Ev("unmarshal", d.err = nil)>>]

\* an exchange that wraps the error of the transport in one of its own
ExchangeWrapTransport(resp) ==
    IF resp.err # nil
    THEN [err |-> "doing request: " \o resp.err, result |-> None,
          io |-> <<Ev("do", FALSE)>>]
    ELSE ExchangeAnyStatus(resp)

\* an exchange that asks the transport a second time when it fails
ExchangeRetry(resp) ==
    IF resp.err # nil
    THEN [err |-> resp.err, result |-> None,
          io |-> <<Ev("do", FALSE), Ev("do", FALSE)>>]
    ELSE ExchangeAnyStatus(resp)

Exchange(resp) ==
    IF resp.err # nil
    THEN [err |-> resp.err, result |-> None, io |-> <<Ev("do", FALSE)>>]
    ELSE IF resp.status # StatusOK
    THEN [err |-> "unexpected http response " \o Sprintf(resp.status),
          result |-> None, io |-> <<Ev("do", TRUE)>>]
    ELSE IF resp.readErr
    THEN [err |-> "reading response: unexpected EOF", result |-> None,
          io |-> <<Ev("do", TRUE), Ev("readall", FALSE)>>]
    ELSE LET d == Decode(resp.body)
         IN [err |-> d.err, result |-> d.r,
             io |-> <<Ev("do", TRUE), Ev("readall", TRUE), Ev("unmarshal", d.err = nil)>>]

-----------------------------------------------------------------------------
\* Spec: Client.Query calls of one client, and the passing of time.

\* the option sequences handed to Client.Query: two queries, a failing option
\* before and after a good one, and two identity options
QueryCalls ==
    LET C == StrOpt("WithCallsign", "AG6K")
        M == StrOpt("WithMode", "FT8")
        F == IntOpt("WithFlowStartSeconds", 1)
        R == StrOpt("WithReceiverCallsign", "AG6K")
    IN { <<C>>, <<M, C>>, <<F, C>>, <<C, F>>, <<C, R>> }

\* the clients New can build: without a cache directory (caching disabled),
\* and with one (WithCacheDir) and a cache duration (WithCacheDuration) of
\* zero or of MaxDuration
Clients ==
    {DefaultClient}
    \cup {[DefaultClient EXCEPT !.cacheDir = "/cache", !.cacheDuration = d] :
             d \in {0, MaxDuration}}

Init ==
    /\ client \in Clients
    /\ now = 0
    /\ files = NoFiles
    /\ last = NoCall
    /\ procs = NoProcs
    /\ qvals = <<>>
    /\ qseed = <<>>
    /\ qopts = <<>>
    /\ qapplied = 0
    /\ qerr = nil
    /\ enc = NoEnc

\* the call returns: last records it, files is the cache directory it leaves
Return(call, fs) ==
    /\ last' = [call EXCEPT !.changed = (fs # files)]
    /\ files' = fs
    /\ UNCHANGED <<client, now, qvals, qseed, qopts, qapplied, qerr, enc, procs>>

Log(call, op, ok) == [call EXCEPT !.io = Append(@, Ev(op, ok))]

\* lines 165-172: the raw body is written to the cache file; a failure of
\* os.Create skips the write, a failure of fh.Write is not looked at and
\* leaves the bytes that made it to the file
CacheWrite(call, body) ==
    LET file == CacheFile(client.cacheDir, call.rawQuery)
    IN \E created \in BOOLEAN :
         IF ~created
         THEN Return(Log(call, "create", FALSE), files)
         ELSE \E n \in 0..Len(body) :
                Return(Log(Log(call, "create", TRUE), "write", n = Len(body)),
                       WriteFile(files, file, SubSeq(body, 1, n), now))

\* a request that writes the body to the cache file whatever c.cacheDir is
FetchAlwaysWrites(call) ==
    \E resp \in Responses :
      LET x == Exchange(resp)
          done == [call EXCEPT !.resp = resp, !.io = @ \o x.io, !.err = x.err,
                               !.result = x.result,
                               !.source = IF x.err = nil THEN "network" ELSE None]
      IN IF x.err # nil THEN Return(done, files)
         ELSE CacheWrite(done, resp.body)

\* lines 140-174: the request, the decoding of the body, the cache write
Fetch(call) ==
    \E resp \in Responses :
      LET x == Exchange(resp)
          done == [call EXCEPT !.resp = resp, !.io = @ \o x.io, !.err = x.err,
                               !.result = x.result,
                               !.source = IF x.err = nil THEN "network" ELSE None]
      IN IF x.err # nil THEN Return(done, files)
         ELSE IF client.cacheDir # "" THEN CacheWrite(done, resp.body)
         ELSE Return(done, files)

\* a cache lookup that stamps the entry it serves with the time of the hit
CacheLookupTouch(call) ==
    LET file == CacheFile(client.cacheDir, call.rawQuery)
    IN \/ /\ file \notin DOMAIN files       \* os.Stat: the file does not exist
          /\ Fetch(Log(call, "stat", FALSE))
       \/ /\ file \in DOMAIN files          \* os.Stat fails on a file that exists
          /\ Fetch(Log(call, "stat", FALSE))
       \/ /\ file \in DOMAIN files
          /\ IF ~Fresh(files[file].mtime, now, client.cacheDuration)
             THEN Fetch(Log(call, "stat", TRUE))
             ELSE \E openOK \in BOOLEAN :
                      IF ~openOK
                      THEN Return([Log(Log(call, "stat", TRUE), "open", FALSE)
                                     EXCEPT !.err = "opening cached file: permission denied"],
                                  files)
                      ELSE \E readOK \in BOOLEAN :
                             LET c3 == Log(Log(Log(call, "stat", TRUE), "open", TRUE),
                                           "read", readOK)
                                 d == Decode(files[file].bytes)
                             IN IF ~readOK THEN Fetch(c3)
                                ELSE IF d.err = nil
                                THEN Return([Log(c3, "decode", TRUE)
                                               EXCEPT !.result = d.r, !.source = "cache"],
                                            WriteFile(files, file, files[file].bytes, now))
                                ELSE Fetch(Log(c3, "decode", FALSE))

\* lines 121-138: the cache lookup
CacheLookup(call) ==
    LET file == CacheFile(client.cacheDir, call.rawQuery)
    IN \/ /\ file \notin DOMAIN files       \* os.Stat: the file does not exist
          /\ Fetch(Log(call, "stat", FALSE))
       \/ /\ file \in DOMAIN files          \* os.Stat fails on a file that exists
          /\ Fetch(Log(call, "stat", FALSE))
       \/ /\ file \in DOMAIN files
          /\ IF ~Fresh(files[file].mtime, now, client.cacheDuration)
             THEN Fetch(Log(call, "stat", TRUE))
             ELSE \E openOK \in BOOLEAN :
                      IF ~openOK
                      THEN Return([Log(Log(call, "stat", TRUE), "open", FALSE)
                                     EXCEPT !.err = "opening cached file: permission denied"],
                                  files)
                      ELSE \E readOK \in BOOLEAN :
                             LET c3 == Log(Log(Log(call, "stat", TRUE), "open", TRUE),
                                           "read", readOK)
                                 d == Decode(files[file].bytes)
                             IN IF ~readOK THEN Fetch(c3)
                                ELSE IF d.err = nil
                                THEN Return([Log(c3, "decode", TRUE)
                                               EXCEPT !.result = d.r, !.source = "cache"],
                                            files)
                                ELSE Fetch(Log(c3, "decode", FALSE))

\* Client.Query(opts...)
Query ==
    \E opts \in QueryCalls :
      LET a == ApplyOptions(opts, ParseQuery(client.rawQuery))
          call == [NoCall EXCEPT !.called = TRUE, !.opts = opts, !.applied = a.n,
                                 !.optErr = a.err, !.vals = a.vals, !.err = a.err,
                                 !.at = now]
      IN IF a.err # nil THEN Return(call, files)
         ELSE LET c1 == [call EXCEPT !.rawQuery = Encode(a.vals),
                                     !.target = client.endpoint \o "?" \o Encode(a.vals)]
              IN IF client.cacheDir # "" THEN CacheLookup(c1) ELSE Fetch(c1)

\* time passes
Tick ==
    /\ now < MaxTime
    /\ now' = now + 1
    /\ UNCHANGED <<client, files, last, qvals, qseed, qopts, qapplied, qerr, enc, procs>>

Next ==
    \/ Query
    \/ Tick

Spec == Init /\ [][Next]_vars

-----------------------------------------------------------------------------
\* SpecShared: the Client.Query calls of two clients that were built with
\* different base URLs and the same cache directory, one call at a time.

\* New(WithBaseURL(e), WithCacheDir("/cache")) for two base URLs
SharedClients ==
    {[DefaultClient EXCEPT !.endpoint = e, !.cacheDir = "/cache"] :
        e \in {"https://retrieve.pskreporter.info/query", "https://mirror.example/query"}}

InitShared ==
    /\ client \in SharedClients
    /\ now = 0
    /\ files = NoFiles
    /\ last = NoCall
    /\ procs = NoProcs
    /\ qvals = <<>>
    /\ qseed = <<>>
    /\ qopts = <<>>
    /\ qapplied = 0
    /\ qerr = nil
    /\ enc = NoEnc

\* the next call is made on the other client
Switch ==
    /\ client' \in SharedClients \ {client}
    /\ UNCHANGED <<now, files, last, qvals, qseed, qopts, qapplied, qerr, enc, procs>>

NextShared ==
    \/ Query
    \/ Tick
    \/ Switch

SpecShared == InitShared /\ [][NextShared]_vars

-----------------------------------------------------------------------------
\* SpecConc: two goroutines call Client.Query on one client with the same
\* option (the same encoded query, the same cache file).  Each file
\* operation of a call is a step, so the steps of the two calls interleave.
\* The file operations do not fail here.

\* New(WithCacheDir("/cache"))
ConcClient == [DefaultClient EXCEPT !.cacheDir = "/cache"]

\* c.Query(WithCallsign("AG6K")): lines 104-122
ConcQuery == BuildQuery(<<StrOpt("WithCallsign", "AG6K")>>, ParseQuery(ConcClient.rawQuery))

\* the reports the server sends, each of two chunks
ConcBodies == { <<"<1", "1>">>, <<"<2", "2>">> }

ConcResponses ==
    { [err |-> "error", status |-> 0, body |-> <<>>, readErr |-> FALSE] }
    \cup {[err |-> nil, status |-> 200, body |-> b, readErr |-> FALSE] : b \in ConcBodies}

\* the bytes of a file after cs is written at offset off: a write beyond the
\* end of the file leaves a hole of zero bytes before it
PutChunks(bytes, off, cs) ==
    LET end == off + Len(cs)
        len == IF Len(bytes) > end THEN Len(bytes) ELSE end
    IN [i \in 1..len |->
          IF i > off /\ i <= end THEN cs[i - off]
          ELSE IF i <= Len(bytes) THEN bytes[i]
          ELSE "hole"]

InitConc ==
    /\ client = ConcClient
    /\ now = 0
    /\ files = NoFiles
    /\ procs = NoProcs
    /\ last = NoCall
    /\ qvals = <<>>
    /\ qseed = <<>>
    /\ qopts = <<>>
    /\ qapplied = 0
    /\ qerr = nil
    /\ enc = NoEnc

ConcFrame == UNCHANGED <<client, now, last, qvals, qseed, qopts, qapplied, qerr, enc>>

\* the goroutine calls c.Query
Begin(p) ==
    /\ procs[p].pc = "idle"
    /\ procs' = [procs EXCEPT ![p] = [NoProc EXCEPT !.pc = "stat"]]
    /\ UNCHANGED files
    /\ ConcFrame

\* lines 123-124: os.Stat and the comparison of the times
Stat(p) ==
    /\ procs[p].pc = "stat"
    /\ procs' = [procs EXCEPT ![p].pc =
                   IF /\ ConcQuery.file \in DOMAIN files
                      /\ Fresh(files[ConcQuery.file].mtime, now, client.cacheDuration)
                   THEN "open" ELSE "do"]
    /\ UNCHANGED files
    /\ ConcFrame

\* line 125: os.Open
Open(p) ==
    /\ procs[p].pc = "open"
    /\ procs' = [procs EXCEPT ![p].pc = "read", ![p].buf = <<>>]
    /\ UNCHANGED files
    /\ ConcFrame

\* line 131: the decoder reads the file from where it is, chunk by chunk,
\* until it has a whole element (the call returns it) or the file ends (the
\* call goes on to the request)
Read(p) ==
    /\ procs[p].pc = "read"
    /\ LET bytes == files[ConcQuery.file].bytes
           have == Len(procs[p].buf)
       IN IF have < Len(bytes)
          THEN LET buf == Append(procs[p].buf, bytes[have + 1])
                   d == Decode(buf)
               IN procs' = [procs EXCEPT ![p] =
                     IF d.err = nil
                     THEN [@ EXCEPT !.pc = "idle", !.buf = buf, !.result = d.r,
                                    !.source = "cache"]
                     ELSE [@ EXCEPT !.buf = buf]]
          ELSE procs' = [procs EXCEPT ![p].pc = "do"]
    /\ UNCHANGED files
    /\ ConcFrame

\* lines 140-163: the request and the decoding of the response
Do(p) ==
    /\ procs[p].pc = "do"
    /\ \E resp \in ConcResponses :
         LET x == Exchange(resp)
         IN procs' = [procs EXCEPT ![p] =
               IF x.err # nil
               THEN [@ EXCEPT !.pc = "idle", !.err = x.err]
               ELSE [@ EXCEPT !.pc = "create", !.body = resp.body, !.result = x.result,
                              !.source = "network"]]
    /\ UNCHANGED files
    /\ ConcFrame

\* line 167: os.Create truncates the file, or makes it
Create(p) ==
    /\ procs[p].pc = "create"
    /\ files' = WriteFile(files, ConcQuery.file, <<>>, now)
    /\ procs' = [procs EXCEPT ![p].pc = "write", ![p].written = 0]
    /\ ConcFrame

\* line 170: fh.Write puts the body into the file at the offset of the
\* handle, all of it at once or a part at a time; after the last part the
\* call returns (line 174)
Write(p) ==
    /\ procs[p].pc = "write"
    /\ \E n \in 1..(Len(procs[p].body) - procs[p].written) :
         LET off == procs[p].written
             cs == SubSeq(procs[p].body, off + 1, off + n)
         IN /\ files' = WriteFile(files, ConcQuery.file,
                                  PutChunks(files[ConcQuery.file].bytes, off, cs), now)
            /\ procs' = [procs EXCEPT ![p].written = off + n,
                                      ![p].pc = IF off + n = Len(procs[p].body)
                                                THEN "idle" ELSE "write"]
    /\ ConcFrame

NextConc ==
    \/ \E p \in Procs : Begin(p)
    \/ \E p \in Procs : Stat(p)
    \/ \E p \in Procs : Open(p)
    \/ \E p \in Procs : Read(p)
    \/ \E p \in Procs : Do(p)
    \/ \E p \in Procs : Create(p)
    \/ \E p \in Procs : Write(p)
    \/ Tick

SpecConc == InitConc /\ [][NextConc]_vars

-----------------------------------------------------------------------------
\* Properties of Client.Query (Spec).

Did(call, op) == \E n \in 1..Len(call.io) : call.io[n][1] = op
DidOK(call, op) == \E n \in 1..Len(call.io) : call.io[n] = Ev(op, TRUE)
Failed(call, op) == \E n \in 1..Len(call.io) : call.io[n] = Ev(op, FALSE)

\* the number of HTTP requests the call issued
HttpRequests(call) == Cardinality({n \in 1..Len(call.io) : call.io[n][1] = "do"})

\* the step is a call of Client.Query: last' is the call, last the call before
QueryStep == now' = now /\ last'.called

CachingEnabled == client.cacheDir # ""

\* the step is a second call with the options of the call before it, which
\* succeeded from the network less than the cache duration ago
SecondCall ==
    /\ QueryStep
    /\ CachingEnabled
    /\ last.called
    /\ last.source = "network"
    /\ last'.opts = last.opts
    /\ now' - last.at < client.cacheDuration

\* C2 as stated: the second of two identical calls within the cache duration
\* issues no HTTP request and returns the result of the first.
C2_AsStated ==
    [][SecondCall =>
        /\ HttpRequests(last') = 0
        /\ last'.err = nil
        /\ last'.result = last.result]_vars

\* C2, amended: when the first call's cache write stored the whole body, the
\* second call issues no HTTP request and returns the result of the first,
\* unless the entry cannot be opened (the call returns the error of the open
\* and issues no request) or os.Stat or the read of the entry fails (the call
\* issues one request).
C2_CacheHit ==
    [][(SecondCall /\ DidOK(last, "write")) =>
        /\ Failed(last', "open") =>
             /\ HttpRequests(last') = 0
             /\ last'.result = None
             /\ last'.err = "opening cached file: permission denied"
        /\ (Failed(last', "stat") \/ Failed(last', "read")) => HttpRequests(last') = 1
        /\ ~(Failed(last', "open") \/ Failed(last', "stat") \/ Failed(last', "read")) =>
             /\ HttpRequests(last') = 0
             /\ last'.err = nil
             /\ last'.source = "cache"
             /\ last'.result = last.result]_vars

\* a result has been served from the cache, with no request, at a later time
\* than the entry was written
C2_Witness ==
    /\ last.called
    /\ last.source = "cache"
    /\ last.result \in {"A", "B"}
    /\ HttpRequests(last) = 0
    /\ last.at > files[CacheFile(client.cacheDir, last.rawQuery)].mtime

\* C3: an entry is served only while now - mtime < cacheDuration; an entry of
\* that age or older is ignored whatever it holds (it is not opened) and the
\* call issues exactly one HTTP request.
C3_Expiry ==
    [][(QueryStep /\ CachingEnabled /\ last'.optErr = nil) =>
        LET file == CacheFile(client.cacheDir, last'.rawQuery)
        IN /\ last'.source = "cache" =>
                /\ file \in DOMAIN files
                /\ now - files[file].mtime < client.cacheDuration
           /\ (file \in DOMAIN files /\ now - files[file].mtime >= client.cacheDuration) =>
                /\ HttpRequests(last') = 1
                /\ ~Did(last', "open")
                /\ ~Did(last', "read")
                /\ ~Did(last', "decode")]_vars

\* an entry that decodes, exactly cacheDuration old, was not opened: the call
\* went to the network (and failed there, so the entry is as the call found it)
C3_Witness ==
    /\ last.called
    /\ CachingEnabled
    /\ client.cacheDuration >= 1
    /\ LET file == CacheFile(client.cacheDir, last.rawQuery)
       IN /\ file \in DOMAIN files
          /\ last.at - files[file].mtime = client.cacheDuration
          /\ Decode(files[file].bytes).err = nil
    /\ DidOK(last, "stat")
    /\ ~Did(last, "open")
    /\ HttpRequests(last) = 1
    /\ last.err # nil

\* C4: on a status other than 200 the call returns "unexpected http response
\* <code>", does not read or decode the body, and leaves the cache as it was.
C4_UnexpectedStatus ==
    (last.called /\ DidOK(last, "do") /\ last.resp.status # 200) =>
        /\ last.err = "unexpected http response " \o ToString(last.resp.status)
        /\ last.resp.status = 500 => last.err = "unexpected http response 500"
        /\ last.result = None
        /\ ~Did(last, "readall")
        /\ ~Did(last, "unmarshal")
        /\ ~Did(last, "create")
        /\ ~last.changed

\* a 500 whose body would decode has been answered with the error, next to
\* an entry for the same query in the cache
C4_Witness ==
    /\ last.called
    /\ CachingEnabled
    /\ last.resp.status = 500
    /\ Decode(last.resp.body).err = nil
    /\ last.err = "unexpected http response 500"
    /\ CacheFile(client.cacheDir, last.rawQuery) \in DOMAIN files

\* a fault of the cache: a missing entry or a failing os.Stat, an entry that
\* cannot be opened or read or does not decode, a failed cache write
CacheFault(call) ==
    \/ Failed(call, "stat")
    \/ Failed(call, "open")
    \/ Failed(call, "read")
    \/ Failed(call, "decode")
    \/ Failed(call, "create")
    \/ Failed(call, "write")

\* C5 as stated: with caching enabled, a call that meets a cache fault has
\* the outcome the call has with caching disabled: the outcome of the request.
C5_AsStated ==
    (last.called /\ CachingEnabled /\ CacheFault(last)) =>
        /\ HttpRequests(last) = 1
        /\ last.err = Exchange(last.resp).err
        /\ last.result = Exchange(last.resp).result

\* C6: when the transport returns an error, the call returns that error
\* unchanged and no result, and leaves the cache as it was.
C6_TransportError ==
    (last.called /\ Failed(last, "do")) =>
        /\ last.resp.err # nil
        /\ last.err = last.resp.err
        /\ last.result = None
        /\ ~Did(last, "create")
        /\ ~last.changed

\* the transport has failed on a call that found a stale entry in the cache
C6_Witness ==
    /\ last.called
    /\ CachingEnabled
    /\ Failed(last, "do")
    /\ last.err = "error"
    /\ CacheFile(client.cacheDir, last.rawQuery) \in DOMAIN files

\* the option at position n of opts fails: by itself, or as an identity
\* option after an identity option of another kind or on a parameter set
\* that starts with another identity key
FailsAt(opts, n, seed) ==
    \/ FailsByItself(opts[n])
    \/ n \in SecondIdentities(opts)
    \/ /\ opts[n].name \in IdentityOptions
       /\ \E k \in Keys(seed) \cap IdentityKeys : "With" \o k # opts[n].name

\* the error the failing option returns
ErrorOf(opt) ==
    IF opt.name = "WithFlowStartSeconds"
    THEN IF opt.i > 0 THEN errFlowStartNotNegative ELSE errFlowStartGreaterDay
    ELSE IF opt.name = "WithFrequencyRange" THEN errLowerFrequencyGreaterThanUpper
    ELSE errCallsignExclusive

\* C10: when an option fails, the call stops at the first failing option,
\* returns its error and no result, and does no I/O: no cache lookup, no
\* HTTP request, no cache write; the options after it are not invoked.
C10_StopsAtFirstFailure ==
    last.called =>
        LET opts == last.opts
            seed == ParseQuery(client.rawQuery)
            failing == {n \in 1..Len(opts) : FailsAt(opts, n, seed)}
        IN failing # {} =>
             LET first == CHOOSE n \in failing : \A m \in failing : n <= m
             IN /\ last.err = ErrorOf(opts[first])
                /\ last.applied = first
                /\ last.result = None
                /\ last.io = <<>>
                /\ ~last.changed

\* a call whose first option fails has returned, next to a cache that holds
\* an entry
C10_Witness ==
    /\ last.called
    /\ CachingEnabled
    /\ Len(last.opts) = 2
    /\ last.opts[1].name = "WithFlowStartSeconds"
    /\ last.err = errFlowStartNotNegative
    /\ last.applied = 1
    /\ last.io = <<>>
    /\ files # NoFiles

\* the cache file of the call
FileOf(call) == CacheFile(client.cacheDir, call.rawQuery)

\* s is a prefix of t, and shorter than t
ProperPrefix(s, t) == Len(s) < Len(t) /\ s = SubSeq(t, 1, Len(s))

\* C12 as stated: a call that finds a fresh entry whose bytes do not decode
\* issues the HTTP request; the entry is not deleted, stays as it is when the
\* fetch fails, and holds the new raw body when the fetch succeeds.
C12_AsStated ==
    (last.called /\ Failed(last, "decode")) =>
        /\ HttpRequests(last) = 1
        /\ FileOf(last) \in DOMAIN files
        /\ last.err # nil => ~last.changed
        /\ last.err = nil =>
             files[FileOf(last)] = [bytes |-> last.resp.body, mtime |-> last.at]

\* C12, amended: a call that finds a fresh entry whose bytes do not decode
\* issues the HTTP request; the entry is not deleted and stays as it is when
\* the fetch fails; when the fetch succeeds the entry holds the new raw body
\* if the cache write succeeds, stays as it is (corrupt) if os.Create fails,
\* and holds a shorter prefix of the body if the write is short.
C12_CorruptEntry ==
    (last.called /\ Failed(last, "decode")) =>
        /\ HttpRequests(last) = 1
        /\ FileOf(last) \in DOMAIN files
        /\ last.err # nil => ~last.changed
        /\ (last.err = nil /\ DidOK(last, "write")) =>
             files[FileOf(last)] = [bytes |-> last.resp.body, mtime |-> last.at]
        /\ (last.err = nil /\ Failed(last, "create")) =>
             /\ ~last.changed
             /\ Decode(files[FileOf(last)].bytes).err # nil
        /\ (last.err = nil /\ Failed(last, "write")) =>
             /\ ProperPrefix(files[FileOf(last)].bytes, last.resp.body)
             /\ files[FileOf(last)].mtime = last.at
        /\ last.err = nil =>
             Failed(last, "create") \/ Failed(last, "write") \/ DidOK(last, "write")

\* a corrupt entry, found fresh at a later time than it was written, has been
\* replaced by the body of the response
C12_Witness ==
    /\ last.called
    /\ Failed(last, "decode")
    /\ last.err = nil
    /\ DidOK(last, "write")
    /\ last.changed
    /\ last.at >= 1
    /\ files[FileOf(last)] = [bytes |-> last.resp.body, mtime |-> last.at]
    /\ Decode(files[FileOf(last)].bytes).err = nil

\* the conditions of the cache write: caching is enabled, the status is 200
\* and the body that was read decodes
WriteConditions(call) ==
    /\ CachingEnabled
    /\ DidOK(call, "do")
    /\ call.resp.status = 200
    /\ DidOK(call, "unmarshal")

\* the cache file is named by the hash of the encoded query of the call
AddressedByQuery(call) ==
    /\ call.rawQuery = Encode(call.vals)
    /\ FileOf(call) = "/cache/md5(" \o call.rawQuery \o ")"

\* C13 as stated: a call writes a cache entry exactly when caching is
\* enabled, the status is 200 and the body decodes; the entry is addressed by
\* the hash of the encoded query, replaces what was there, holds exactly the
\* raw body and carries the time of the write.
C13_AsStated ==
    last.called =>
        /\ last.changed => WriteConditions(last)
        /\ WriteConditions(last) =>
             /\ AddressedByQuery(last)
             /\ FileOf(last) \in DOMAIN files
             /\ files[FileOf(last)] = [bytes |-> last.resp.body, mtime |-> last.at]

\* C13, amended: a call attempts the cache write (os.Create) exactly when
\* caching is enabled, the status is 200 and the body decodes, and changes the
\* cache directory in no other case; the file is addressed by the hash of the
\* encoded query; when os.Create and the write succeed the entry replaces what
\* was there, holds exactly the raw body and carries the time of the write;
\* when os.Create fails the directory is as it was; when the write is short
\* the entry holds a shorter prefix of the body, with the time of the write.
C13_CacheWrite ==
    last.called =>
        /\ Did(last, "create") <=> WriteConditions(last)
        /\ ~DidOK(last, "create") => ~last.changed
        /\ DidOK(last, "create") =>
             /\ AddressedByQuery(last)
             /\ Did(last, "write")
             /\ FileOf(last) \in DOMAIN files
             /\ files[FileOf(last)].mtime = last.at
        /\ DidOK(last, "write") => files[FileOf(last)].bytes = last.resp.body
        /\ Failed(last, "write") =>
             ProperPrefix(files[FileOf(last)].bytes, last.resp.body)

\* the body of a second response has replaced, at a later time, the entry the
\* first response left for the query
C13_Witness ==
    /\ last.called
    /\ WriteConditions(last)
    /\ DidOK(last, "write")
    /\ last.changed
    /\ last.at = MaxTime
    /\ last.resp.body = <<"B">>
    /\ last.rawQuery = "callsign=AG6K&mode=FT8"
    /\ DOMAIN files = {"/cache/md5(callsign=AG6K&mode=FT8)"}
    /\ files[FileOf(last)] = [bytes |-> <<"B">>, mtime |-> MaxTime]
    /\ client.cacheDuration = MaxDuration

\* how many times the call did the operation
Count(call, op) == Cardinality({n \in 1..Len(call.io) : call.io[n][1] = op})

\* C14: a call does each step of the cache read (os.Stat, os.Open, the read
\* and decoding of the entry) at most once, issues at most one HTTP request
\* and does at most one cache write (os.Create, fh.Write); a call that returns
\* a result from the cache issues no request and writes nothing.
C14_SingleOperation ==
    last.called =>
        /\ \A op \in {"stat", "open", "read", "decode"} : Count(last, op) <= 1
        /\ Count(last, "do") <= 1
        /\ Count(last, "readall") <= 1
        /\ Count(last, "unmarshal") <= 1
        /\ \A op \in {"create", "write"} : Count(last, op) <= 1
        /\ last.source = "cache" =>
             /\ last.err = nil
             /\ last.result # None
             /\ Count(last, "do") = 0
             /\ Count(last, "create") = 0
             /\ Count(last, "write") = 0
             /\ ~last.changed

\* one call has done all three: the read of an entry (which failed), one
\* request, and one write
C14_Witness ==
    /\ last.called
    /\ Failed(last, "read")
    /\ Count(last, "open") = 1
    /\ Count(last, "do") = 1
    /\ Count(last, "create") = 1
    /\ Count(last, "write") = 1
    /\ last.err = nil

\* C15: a client without a cache directory never reads, creates or modifies
\* a cache entry, and every call of it whose options validate issues exactly
\* one HTTP request, whatever was asked and answered before.
C15_CachingDisabled ==
    ~CachingEnabled =>
        /\ files = NoFiles
        /\ last.called =>
             /\ \A op \in {"stat", "open", "read", "decode", "create", "write"} :
                  ~Did(last, op)
             /\ ~last.changed
             /\ last.source # "cache"
             /\ last.optErr = nil => HttpRequests(last) = 1

\* a client without a cache directory has been answered from the network at
\* the end of the clock, and there is no file
C15_Witness ==
    /\ client.cacheDir = ""
    /\ last.called
    /\ last.at = MaxTime
    /\ last.optErr = nil
    /\ last.err = nil
    /\ last.source = "network"
    /\ last.io = <<Ev("do", TRUE), Ev("readall", TRUE), Ev("unmarshal", TRUE)>>
    /\ files = NoFiles

-----------------------------------------------------------------------------
\* Properties of clients that share a cache directory (SpecShared).

\* C16 as stated: a result served from the cache was decoded from the body
\* of an earlier 200 response to the same request target (base URL and
\* encoded query).  Here for the entry the call before has just written: a
\* call that is served that entry has the target the entry was fetched from.
C16_AsStated ==
    [][( /\ QueryStep
         /\ last.called
         /\ DidOK(last, "write")
         /\ last'.source = "cache"
         /\ FileOf(last') = FileOf(last) )
       => /\ last'.result = last.result
          /\ last'.target = last.target]_vars

-----------------------------------------------------------------------------
\* Properties of calls that run at the same time (SpecConc).

\* what the entries decode to that a cache write has put in place whole
CompleteResults == {Decode(b).r : b \in ConcBodies}

\* C17 as stated: a call that returns a result from the cache returns the
\* result of a completely written entry; what it read while another call
\* was writing the entry never decodes to anything else.
C17_AsStated ==
    \A p \in Procs :
        (procs[p].pc = "idle" /\ procs[p].source = "cache") =>
            procs[p].result \in CompleteResults

-----------------------------------------------------------------------------
\* Freshness over a sequence of calls (Spec).

\* the files the step has made or changed
Written == {f \in DOMAIN files' : f \notin DOMAIN files \/ files'[f] # files[f]}

\* C18: a cache hit leaves the bytes and the modification time of every
\* entry as they were, and the entry it serves is younger than the cache
\* duration; an entry gets its bytes and its time only from a call that
\* fetched a response at that time and wrote (a part of) its body; so every
\* result returned comes from a response fetched during the call or less
\* than the cache duration before it.
C18_NoRefresh ==
    [][QueryStep =>
        /\ DOMAIN files \subseteq DOMAIN files'
        /\ last'.source = "cache" =>
             /\ files' = files
             /\ FileOf(last') \in DOMAIN files
             /\ last'.result = Decode(files[FileOf(last')].bytes).r
             /\ files[FileOf(last')].mtime <= now
             /\ now - files[FileOf(last')].mtime < client.cacheDuration
        /\ last'.source = "network" =>
             /\ HttpRequests(last') = 1
             /\ last'.resp.status = 200
             /\ last'.result = Decode(last'.resp.body).r
        /\ last'.result # None => last'.source \in {"cache", "network"}
        /\ \A f \in Written :
             /\ f = FileOf(last')
             /\ last'.source = "network"
             /\ files'[f].mtime = now
             /\ \/ files'[f].bytes = last'.resp.body
                \/ ProperPrefix(files'[f].bytes, last'.resp.body)]_vars

\* the oldest entry that is still served has been served, and is as it was
C18_Witness ==
    /\ last.called
    /\ last.source = "cache"
    /\ ~last.changed
    /\ client.cacheDuration >= 2
    /\ last.at - files[FileOf(last)].mtime = client.cacheDuration - 1
    /\ last.result = Decode(files[FileOf(last)].bytes).r

====
